---- MODULE Spec2Model ----
(***************************************************************************)
(* Model of XLSXProcessor (src/xlsx_processor.py) and of the command-line  *)
(* driver (src/process_xlsx.py): the ledger held in srt_data, the report   *)
(* grid held in stat_data, and the queries and statistics computed from    *)
(* them.                                                                   *)
(*                                                                         *)
(* Numbers.  Amounts are whole currency units.  A cell that pandas holds   *)
(* as NaN is the record NaN; a present number v is Num(v).  A quotient is  *)
(* kept exact as a fraction [num, den]; numpy's nan and inf are the        *)
(* records FNaN and FInf.                                                  *)
(* Text.  GRP cells are compared for equality only and are TLA+ strings;   *)
(* C1 and C2 cells, searched and sliced, are sequences of characters.      *)
(***************************************************************************)
EXTENDS Integers, Sequences, FiniteSets, TLC

VARIABLES srt_data, stat_data, result, load_ok

vars == <<srt_data, stat_data, result, load_ok>>

\* Python's None for an optional field; Some(x) is a field that holds x.
None == <<>>
Some(x) == <<x>>

(***************************************************************************)
(* Calendar                                                                *)
(***************************************************************************)
Date(y, m, d) == [year |-> y, month |-> m, day |-> d]

IsLeap(y) == (y % 4 = 0) /\ ((y % 100 # 0) \/ (y % 400 = 0))

\* calendar.monthrange(year, month)[1]
DaysInMonth(y, m) ==
    IF m = 2 THEN (IF IsLeap(y) THEN 29 ELSE 28)
    ELSE IF m \in {4, 6, 9, 11} THEN 30 ELSE 31

Min(a, b) == IF a <= b THEN a ELSE b
Max(a, b) == IF a >= b THEN a ELSE b

\* Month arithmetic in which a day past the end of the month reached rolls
\* over into the month after it.
AddMonthsRolling(date, k) ==
    LET idx == date.year * 12 + (date.month - 1) + k
        y   == idx \div 12
        m   == (idx % 12) + 1
        dim == DaysInMonth(y, m)
    IN IF date.day <= dim THEN Date(y, m, date.day)
       ELSE Date((idx + 1) \div 12, ((idx + 1) % 12) + 1, date.day - dim)

\* date + relativedelta(months=k), k any integer: the month moves by k and the
\* day is clipped to the length of the month reached.
AddMonths(date, k) ==
    LET idx == date.year * 12 + (date.month - 1) + k
        y   == idx \div 12
        m   == (idx % 12) + 1
    IN Date(y, m, Min(date.day, DaysInMonth(y, m)))

\* Order of two calendar dates (datetime comparison at midnight).
DateOrd(date) == date.year * 10000 + date.month * 100 + date.day
DateLE(a, b) == DateOrd(a) <= DateOrd(b)
DateLT(a, b) == DateOrd(a) < DateOrd(b)

get_month_end_date(date) ==
    Date(date.year, date.month, DaysInMonth(date.year, date.month))

get_previous_month_end_date(date) ==
    LET prev_month == AddMonths(date, 0 - 1)
    IN get_month_end_date(prev_month)

\* date.strftime('%Y-%m-%d'): four, two and two decimal digits.
Digits == <<"0", "1", "2", "3", "4", "5", "6", "7", "8", "9">>
Digit(n) == Digits[(n % 10) + 1]
DigitValue(c) == CHOOSE n \in 0..9 : Digits[n + 1] = c
StrfDate(date) ==
    << Digit(date.year \div 1000), Digit(date.year \div 100),
       Digit(date.year \div 10), Digit(date.year), "-",
       Digit(date.month \div 10), Digit(date.month), "-",
       Digit(date.day \div 10), Digit(date.day) >>

(***************************************************************************)
(* Cells of the ledger                                                     *)
(***************************************************************************)
NaN == [nan |-> TRUE, v |-> 0]
Num(v) == [nan |-> FALSE, v |-> v]

\* A Date cell.  In the sheet it is a date, a text that parses as a date, a
\* text that does not, or empty; after pd.to_datetime it is a date or NaT.
DateCell(y, m, d) == [k |-> "date", year |-> y, month |-> m, day |-> d]
DateText(y, m, d) == [k |-> "datetext", year |-> y, month |-> m, day |-> d]
BadText == [k |-> "badtext", year |-> 0, month |-> 0, day |-> 0]
NoDate == [k |-> "none", year |-> 0, month |-> 0, day |-> 0]
NaT == [k |-> "nat", year |-> 0, month |-> 0, day |-> 0]

\* A C1 or C2 cell: NaN or a string (a sequence of characters).
NoText == [na |-> TRUE, s |-> <<>>]
Text(s) == [na |-> FALSE, s |-> s]

Row(date, grp, c1, c2, debit, credit, balance) ==
    [Date |-> date, GRP |-> grp, C1 |-> c1, C2 |-> c2,
     Debit |-> debit, Credit |-> credit, Balance |-> balance]

\* pd.to_datetime on one cell of the Date column.
ToDatetimeRaises(cell) == cell.k = "badtext"
ToDatetime(cell) ==
    IF cell.k \in {"date", "datetext"}
    THEN DateCell(cell.year, cell.month, cell.day)
    ELSE NaT

\* Python's `sub in s` for strings, used by Series.str.contains with a literal.
Contains(s, sub) ==
    \E i \in 0..(Len(s) - Len(sub)) :
        \A j \in 1..Len(sub) : s[i + j] = sub[j]

RTN == <<"R", "T", "N">>

\* The C1 descriptors that generate_stat_data counts.
CashDeposit == <<"C","a","s","h"," ","D","e","p","o","s","i","t">>
CashWithdrawal == <<"C","a","s","h"," ","W","i","t","h","d","r","a","w","a","l">>

\* Series.str.contains(sub, na=False) on one text cell.
StrContains(cell, sub) == IF cell.na THEN FALSE ELSE Contains(cell.s, sub)

\* Python's str.startswith.
StartsWith(s, prefix) ==
    /\ Len(s) >= Len(prefix)
    /\ \A j \in 1..Len(prefix) : s[j] = prefix[j]

\* s[k:], the string without its first k characters.
Drop(s, k) == IF Len(s) <= k THEN <<>> ELSE SubSeq(s, k + 1, Len(s))

\* float(s) for a string of decimal digits (the thresholds of a '>' condition).
RECURSIVE ParseNumber(_)
ParseNumber(s) ==
    IF s = <<>> THEN 0
    ELSE 10 * ParseNumber(SubSeq(s, 1, Len(s) - 1)) + DigitValue(s[Len(s)])

(***************************************************************************)
(* The ledger frame: self.srt_data                                         *)
(***************************************************************************)
\* A DataFrame: its column names and its rows in input order.
Frame(columns, rows) == [columns |-> columns, rows |-> rows]

\* Comparing the Date column with a datetime raises TypeError when a cell of
\* the column is a str, which is the case only for a frame whose conversion
\* by pd.to_datetime did not take place.
CompareRaises(frame) ==
    \E i \in 1..Len(frame.rows) : frame.rows[i].Date.k \in {"datetext", "badtext"}

\* (Date <= hi) for one row; NaT and None compare False.
DateCellLE(cell, hi) == cell.k = "date" /\ DateLE(cell, hi)
\* (Date > lo) for one row.
DateCellGT(cell, lo) == cell.k = "date" /\ DateLT(lo, cell)
DateCellGE(cell, lo) == cell.k = "date" /\ DateLE(lo, cell)

\* Outcome of a call: a returned value or a raised exception.
Ok(v) == [status |-> "ok", exc |-> "", value |-> v]
Raise(e) == [status |-> "error", exc |-> e, value |-> None]

\* Series.sum() of `column` over the rows selected by mask: NaN is skipped and
\* the sum of nothing is 0.
RECURSIVE SumColumn(_, _, _, _)
SumColumn(rows, mask, column, n) ==
    IF n = 0 THEN 0
    ELSE SumColumn(rows, mask, column, n - 1)
         + (IF mask[n] /\ ~rows[n][column].nan THEN rows[n][column].v ELSE 0)

SumMaskGE(frame, month_end, prev_month_end, group_filter, exclude_rtn) ==
    [i \in 1..Len(frame.rows) |->
        /\ frame.rows[i].GRP = group_filter
        /\ DateCellLE(frame.rows[i].Date, month_end)
        /\ DateCellGE(frame.rows[i].Date, prev_month_end)
        /\ (exclude_rtn => ~StrContains(frame.rows[i].C2, RTN))]

SumMask(frame, month_end, prev_month_end, group_filter, exclude_rtn) ==
    [i \in 1..Len(frame.rows) |->
        /\ frame.rows[i].GRP = group_filter
        /\ DateCellLE(frame.rows[i].Date, month_end)
        /\ DateCellGT(frame.rows[i].Date, prev_month_end)
        /\ (exclude_rtn => ~StrContains(frame.rows[i].C2, RTN))]

calculate_monthly_sum(srt, base_date, group_filter, column, exclude_rtn) ==
    IF srt = None THEN Raise("ValueError")
    ELSE LET frame          == srt[1]
             month_end      == get_month_end_date(base_date)
             prev_month_end == get_previous_month_end_date(base_date)
         IN IF CompareRaises(frame) THEN Raise("TypeError")
            ELSE LET mask == SumMask(frame, month_end, prev_month_end,
                                     group_filter, exclude_rtn)
                 IN Ok(SumColumn(frame.rows, mask, column, Len(frame.rows)))

\* The positions selected by a boolean mask, in row order.
Selected(mask) == {i \in DOMAIN mask : mask[i]}
SetMax(S) == CHOOSE x \in S : \A y \in S : y <= x
SetMin(S) == CHOOSE x \in S : \A y \in S : x <= y

EodFirst(frame, month_end) ==
    LET month_data == Selected([i \in 1..Len(frame.rows) |->
                                   DateCellLE(frame.rows[i].Date, month_end)])
    IN IF month_data # {}
       THEN Ok(frame.rows[SetMin(month_data)].Balance)
       ELSE Ok(0)

EodSelect(frame, month_end) ==
    LET month_data == Selected([i \in 1..Len(frame.rows) |->
                                   DateCellLE(frame.rows[i].Date, month_end)])
    IN IF month_data # {}
       THEN Ok(frame.rows[SetMax(month_data)].Balance)   \* .iloc[-1]
       ELSE Ok(0)

calculate_eod_balance(srt, base_date) ==
    IF srt = None THEN Raise("ValueError")
    ELSE LET frame     == srt[1]
             month_end == get_month_end_date(base_date)
         IN IF CompareRaises(frame) THEN Raise("TypeError")
            ELSE EodSelect(frame, month_end)

\* One entry of condition_filters applied to one row.  The value of the entry
\* is a string; a leading '>' makes it a numeric threshold, a leading '<>' a
\* substring to exclude, anything else a value to equal.  The '>' entries of
\* the model name an amount column, the others a text column.
ConditionHolds(row, col, value) ==
    IF StartsWith(value, <<">">>)
    THEN LET threshold == ParseNumber(Drop(value, 1))
         IN ~row[col].nan /\ row[col].v > threshold
    ELSE IF StartsWith(value, <<"<", ">">>)
    THEN ~StrContains(row[col], Drop(value, 2))
    ELSE ~row[col].na /\ row[col].s = value

\* condition_filters is a dict: a sequence of <<column, value>> entries with
\* distinct columns.  An entry whose column the frame lacks is skipped.
CountMask(frame, month_end, prev_month_end, group_filter, condition_filters) ==
    [i \in 1..Len(frame.rows) |->
        /\ DateCellLE(frame.rows[i].Date, month_end)
        /\ DateCellGT(frame.rows[i].Date, prev_month_end)
        /\ (group_filter # "" => frame.rows[i].GRP = group_filter)
        /\ \A c \in 1..Len(condition_filters) :
              condition_filters[c][1] \in frame.columns
                 => ConditionHolds(frame.rows[i], condition_filters[c][1],
                                   condition_filters[c][2])]

\* group_filter "" stands for None (both are falsy); condition_filters <<>>
\* stands for None or an empty dict.
calculate_monthly_count(srt, base_date, group_filter, condition_filters) ==
    IF srt = None THEN Raise("ValueError")
    ELSE LET frame          == srt[1]
             month_end      == get_month_end_date(base_date)
             prev_month_end == get_previous_month_end_date(base_date)
         IN IF CompareRaises(frame) THEN Raise("TypeError")
            ELSE Ok(Cardinality(Selected(
                     CountMask(frame, month_end, prev_month_end,
                               group_filter, condition_filters))))

(***************************************************************************)
(* Floating-point results kept exact: a finite value is a fraction in      *)
(* lowest terms with a positive denominator; nan and inf are tagged.       *)
(***************************************************************************)
Abs(x) == IF x < 0 THEN 0 - x ELSE x

RECURSIVE Gcd(_, _)
Gcd(a, b) == IF b = 0 THEN a ELSE Gcd(b, a % b)

Fin(n, d) ==
    LET g == Gcd(Abs(n), Abs(d))
        sgn == IF d < 0 THEN 0 - 1 ELSE 1
    IN [k |-> "fin", num |-> sgn * (n \div g), den |-> sgn * (d \div g)]
FNaN == [k |-> "nan", num |-> 0, den |-> 1]
FInf == [k |-> "inf", num |-> 1, den |-> 1]
FNegInf == [k |-> "inf", num |-> 0 - 1, den |-> 1]

FIsZero(x) == x.k = "fin" /\ x.num = 0
FIsPositive(x) == (x.k = "fin" /\ x.num > 0) \/ (x.k = "inf" /\ x.num > 0)

\* a / b for numpy float64 operands: nan propagates, a finite nonzero value
\* over zero is an infinity, zero over zero is nan.
FDiv(a, b) ==
    IF a.k = "nan" \/ b.k = "nan" THEN FNaN
    ELSE IF a.k = "inf" /\ b.k = "inf" THEN FNaN
    ELSE IF a.k = "inf" THEN (IF (a.num > 0) = (b.num >= 0) THEN FInf ELSE FNegInf)
    ELSE IF b.k = "inf" THEN Fin(0, 1)
    ELSE IF b.num = 0
         THEN (IF a.num = 0 THEN FNaN ELSE IF a.num > 0 THEN FInf ELSE FNegInf)
    ELSE Fin(a.num * b.den, a.den * b.num)

RECURSIVE SeqSum(_)
SeqSum(xs) == IF xs = <<>> THEN 0 ELSE xs[1] + SeqSum(Tail(xs))

RECURSIVE SeqSumSq(_)
SeqSumSq(xs) == IF xs = <<>> THEN 0 ELSE xs[1] * xs[1] + SeqSumSq(Tail(xs))

\* np.mean of a list of numbers: nan for the empty list.
NpMean(xs) == IF xs = <<>> THEN FNaN ELSE Fin(SeqSum(xs), Len(xs))

\* [v for v in values if v >= 0]
RECURSIVE NonNegatives(_)
NonNegatives(xs) ==
    IF xs = <<>> THEN <<>>
    ELSE (IF xs[1] >= 0 THEN <<xs[1]>> ELSE <<>>) \o NonNegatives(Tail(xs))

\* [v for v in values if v > 0]
RECURSIVE Positives(_)
Positives(xs) ==
    IF xs = <<>> THEN <<>>
    ELSE (IF xs[1] > 0 THEN <<xs[1]>> ELSE <<>>) \o Positives(Tail(xs))

(***************************************************************************)
(* Derived metrics: volatility, trend ratio, score                         *)
(***************************************************************************)
\* The coefficient of variation std(ddof=1) / mean is not rational; the model
\* keeps its square, [sq |-> var / mean^2], which determines it (it is >= 0).
\* For n values with sum s and sum of squares q:
\*   var = (n q - s^2) / (n (n - 1)),  mean^2 = s^2 / n^2.
Root(f) == [sq |-> f]

calculate_volatility(values) ==
    IF values = <<>> \/ Len(values) < 2 THEN Root(Fin(0, 1))
    ELSE LET pos == Positives(values)
             n   == Len(pos)
             sm  == SeqSum(pos)
             q   == SeqSumSq(pos)
         IN IF n < 2 THEN Root(Fin(0, 1))
            ELSE IF FIsZero(NpMean(pos)) THEN Root(Fin(0, 1))
            ELSE Root(Fin(n * (n * q - sm * sm), (n - 1) * sm * sm))

\* values[:k] and values[k:]
Take(xs, k) == SubSeq(xs, 1, k)
From(xs, k) == SubSeq(xs, k + 1, Len(xs))

\* The split with the extra element of an odd-length series in the older half.
TrendRatioOlderExtra(values) ==
    IF values = <<>> \/ Len(values) < 3 THEN Fin(1, 1)
    ELSE LET mid_point == (Len(values) + 1) \div 2
             recent_avg == NpMean(Positives(From(values, mid_point)))
             older_avg  == NpMean(Positives(Take(values, mid_point)))
         IN IF FIsZero(older_avg)
            THEN (IF FIsZero(recent_avg) THEN Fin(1, 1) ELSE FInf)
            ELSE FDiv(recent_avg, older_avg)

calculate_trend_ratio(values) ==
    IF values = <<>> \/ Len(values) < 3 THEN Fin(1, 1)
    ELSE LET mid_point == Len(values) \div 2
             recent == From(values, mid_point)
             older  == Take(values, mid_point)
             recent_avg == NpMean(Positives(recent))
             older_avg  == NpMean(Positives(older))
         IN IF FIsZero(older_avg)
            THEN (IF FIsZero(recent_avg) THEN Fin(1, 1) ELSE FInf)
            ELSE FDiv(recent_avg, older_avg)

\* The scan of calculate_score from rule i on: the first rule with
\* value <= threshold wins; past the end, the last rule's score.
RECURSIVE ScanStrict(_, _, _)
ScanStrict(value, scoring_rules, i) ==
    IF i > Len(scoring_rules) THEN scoring_rules[Len(scoring_rules)][2]
    ELSE IF value < scoring_rules[i][1] THEN scoring_rules[i][2]
    ELSE ScanStrict(value, scoring_rules, i + 1)

RECURSIVE ScanRules(_, _, _)
ScanRules(value, scoring_rules, i) ==
    IF i > Len(scoring_rules) THEN scoring_rules[Len(scoring_rules)][2]
    ELSE IF value <= scoring_rules[i][1] THEN scoring_rules[i][2]
    ELSE ScanRules(value, scoring_rules, i + 1)

\* value is a number or NaN; scoring_rules a list of <<threshold, score>>.
\* An empty list raises IndexError at scoring_rules[-1].
calculate_score(value, scoring_rules) ==
    IF value.nan \/ value.v = 0 THEN Ok(0)
    ELSE IF scoring_rules = <<>> THEN Raise("IndexError")
    ELSE Ok(ScanRules(value.v, scoring_rules, 1))

(***************************************************************************)
(* The processor: __init__, read_srt_data and the queries as calls         *)
(***************************************************************************)
\* The last call made on the processor and how it ended.
Call(op, args, outcome) ==
    [op |-> op, args |-> args, status |-> outcome.status,
     exc |-> outcome.exc, value |-> outcome.value]

\* XLSXProcessor(): both fields None.  load_ok records whether some
\* read_srt_data call has returned normally.
Init ==
    /\ srt_data = None
    /\ stat_data = None
    /\ result = Call("__init__", <<>>, Ok(None))
    /\ load_ok = FALSE

\* A workbook on disk: file.exists is whether pd.read_excel can read the
\* sheet, file.columns and file.rows are what it then returns.
File(exists, columns, rows) == [exists |-> exists, columns |-> columns, rows |-> rows]

ConvertDates(frame) ==
    Frame(frame.columns,
          [i \in 1..Len(frame.rows) |->
              [frame.rows[i] EXCEPT !.Date = ToDatetime(@)]])

\* read_srt_data: the frame is assigned to self.srt_data before its Date
\* column is converted, so an exception of pd.to_datetime leaves the
\* unconverted frame in the field.
ReadSrtData(file) ==
    LET raw == Frame(file.columns, file.rows)
    IN /\ IF ~file.exists
          THEN /\ srt_data' = srt_data
               /\ result' = Call("read_srt_data", file, Raise("FileNotFoundError"))
               /\ load_ok' = load_ok
          ELSE IF "Date" \in raw.columns
                  /\ \E i \in 1..Len(raw.rows) : ToDatetimeRaises(raw.rows[i].Date)
          THEN /\ srt_data' = Some(raw)
               /\ result' = Call("read_srt_data", file, Raise("ValueError"))
               /\ load_ok' = load_ok
          ELSE /\ srt_data' = Some(IF "Date" \in raw.columns
                                   THEN ConvertDates(raw) ELSE raw)
               /\ result' = Call("read_srt_data", file, Ok(None))
               /\ load_ok' = TRUE
       /\ UNCHANGED stat_data

CalculateMonthlySum(base_date, group_filter, column, exclude_rtn) ==
    /\ result' = Call("calculate_monthly_sum",
                      [base_date |-> base_date, group_filter |-> group_filter,
                       column |-> column, exclude_rtn |-> exclude_rtn],
                      calculate_monthly_sum(srt_data, base_date, group_filter,
                                            column, exclude_rtn))
    /\ UNCHANGED <<srt_data, stat_data, load_ok>>

CalculateEodBalance(base_date) ==
    /\ result' = Call("calculate_eod_balance", [base_date |-> base_date],
                      calculate_eod_balance(srt_data, base_date))
    /\ UNCHANGED <<srt_data, stat_data, load_ok>>

CalculateMonthlyCount(base_date, group_filter, condition_filters) ==
    /\ result' = Call("calculate_monthly_count",
                      [base_date |-> base_date, group_filter |-> group_filter,
                       condition_filters |-> condition_filters],
                      calculate_monthly_count(srt_data, base_date, group_filter,
                                              condition_filters))
    /\ UNCHANGED <<srt_data, stat_data, load_ok>>

(***************************************************************************)
(* Formatting                                                              *)
(***************************************************************************)
RECURSIVE Pow10(_)
Pow10(k) == IF k = 0 THEN 1 ELSE 10 * Pow10(k - 1)

\* str(n) for n >= 0, and with exactly k digits (zero padded).
RECURSIVE NatToStr(_)
NatToStr(n) == IF n < 10 THEN <<Digit(n)>> ELSE NatToStr(n \div 10) \o <<Digit(n)>>

RECURSIVE PadDigits(_, _)
PadDigits(n, k) == IF k = 0 THEN <<>> ELSE PadDigits(n \div 10, k - 1) \o <<Digit(n)>>

\* str(n) for an int n.
IntToStr(n) == IF n < 0 THEN <<"-">> \o NatToStr(0 - n) ELSE NatToStr(n)

\* The digits of q / 10^places in fixed notation.
FixedDigits(q, places) ==
    NatToStr(q \div Pow10(places))
    \o (IF places = 0 THEN <<>> ELSE <<".">> \o PadDigits(q % Pow10(places), places))

\* a / b (a >= 0, b > 0) in units of 10^-places, rounded half to even.
RoundHalfEven(a, b, places) ==
    LET scaled == a * Pow10(places)
        q == scaled \div b
        r == scaled % b
    IN IF 2 * r > b THEN q + 1
       ELSE IF 2 * r = b THEN q + (q % 2)
       ELSE q

\* format(a / b, '.<places>f') for ints a, b (b # 0) divided as floats.  The
\* sign is that of the float quotient, so 0 / b with b < 0 prints '-0'.
FormatQuotient(a, b, places) ==
    LET negative == (a < 0 /\ b > 0) \/ (a >= 0 /\ b < 0)
    IN (IF negative THEN <<"-">> ELSE <<>>)
       \o FixedDigits(RoundHalfEven(Abs(a), Abs(b), places), places)

\* format(x, '.<places>f') for a float result x.
FormatFloat(x, places) ==
    IF x.k = "nan" THEN <<"n", "a", "n">>
    ELSE IF x.k = "inf"
         THEN (IF x.num < 0 THEN <<"-">> ELSE <<>>) \o <<"i", "n", "f">>
    ELSE FormatQuotient(x.num, x.den, places)

\* floor(sqrt(n)) for n >= 0.
RECURSIVE ISqrtFrom(_, _)
ISqrtFrom(n, h) == IF (h + 1) * (h + 1) > n THEN h ELSE ISqrtFrom(n, h + 1)
ISqrt(n) == ISqrtFrom(n, 0)

\* format(sqrt(f), '.2f') for a fraction f >= 0: h = floor(100 sqrt(f)) and one
\* more when 100 sqrt(f) >= h + 1/2, i.e. 40000 num >= (2h+1)^2 den.
FormatRoot(r) ==
    LET f == r.sq
        h == ISqrt((10000 * f.num) \div f.den)
        up == 40000 * f.num >= (2 * h + 1) * (2 * h + 1) * f.den
    IN FixedDigits(IF up THEN h + 1 ELSE h, 2)

(***************************************************************************)
(* Cells of the report grid                                                *)
(***************************************************************************)
\* A label (a fixed Python string, compared as a whole), a text (a Python
\* string the code composes or that looks like a number, kept as characters),
\* a number, np.nan, or the None that pd.DataFrame pads short rows with.
L(s) == [t |-> "label", s |-> s, cs |-> <<>>, n |-> 0]
T(cs) == [t |-> "text", s |-> "", cs |-> cs, n |-> 0]
N(n) == [t |-> "num", s |-> "", cs |-> <<>>, n |-> n]
NanCell == [t |-> "nan", s |-> "", cs |-> <<>>, n |-> 0]
NoneCell == [t |-> "none", s |-> "", cs |-> <<>>, n |-> 0]
E == T(<<>>)

\* [cell] * k
Rep(cell, k) == [i \in 1..Max(k, 0) |-> cell]

monthly_labels ==
    << "EOD monthly balance", "Credit (BT)", "Debit (BT)", "Expense",
       "Top 2 Credit (BT)", "Top 2 Debit (BT)", "ZIH Cr", "ZIH Dr",
       "DBT (Cr)", "DBT (Dr)", "Monthly Loan payments Bank",
       "Monthly Loan payments Pvt", "Loan received Bank", "Loan received Pvt",
       "Net ZIH Cr (ZIH Cr - ZIH Dr)", "Cash Flow (Credit - Debit - Expense)",
       "Net ECS Cr (ECS Cr - ECS Dr)", "Net ECS Pvt Cr (ECS Pvt Cr - ECS Pvt Dr)",
       "Net DBT", "Net flow", "Loan rollover ratio", "Count of Cash Trn",
       "Count of Transactions" >>

(***************************************************************************)
(* generate_stat_data                                                      *)
(***************************************************************************)
\* The sums of one month, each with its group, column and exclusion flag.
\* The frame is loaded and its dates compare, so every call returns.
MonthSum(srt, month_date, group_filter, column, exclude_rtn) ==
    calculate_monthly_sum(srt, month_date, group_filter, column, exclude_rtn).value

EcsDebitUnfiltered(srt, month_date) == MonthSum(srt, month_date, "ecs", "Debit", FALSE)

ecs_debit(srt, month_date) == MonthSum(srt, month_date, "ecs", "Debit", TRUE)
ecs_pvt_debit(srt, month_date) == MonthSum(srt, month_date, "ecs pvt", "Debit", TRUE)
ecs_credit(srt, month_date) == MonthSum(srt, month_date, "ecs", "Credit", FALSE)
ecs_pvt_credit(srt, month_date) == MonthSum(srt, month_date, "ecs pvt", "Credit", FALSE)

\* monthly_data[month_key]
MonthlyData(srt, month_date) ==
    [ eod_balance |-> calculate_eod_balance(srt, month_date).value,
      bt_credit |-> MonthSum(srt, month_date, "BT", "Credit", FALSE),
      bt_debit |-> MonthSum(srt, month_date, "BT", "Debit", FALSE),
      expense |-> MonthSum(srt, month_date, "EXP", "Debit", FALSE),
      zih_credit |-> MonthSum(srt, month_date, "ZIH", "Credit", FALSE),
      zih_debit |-> MonthSum(srt, month_date, "ZIH", "Debit", FALSE),
      dbt_credit |-> MonthSum(srt, month_date, "DBT", "Credit", FALSE),
      dbt_debit |-> MonthSum(srt, month_date, "DBT", "Debit", FALSE),
      ecs_debit |-> ecs_debit(srt, month_date),
      ecs_pvt_debit |-> ecs_pvt_debit(srt, month_date),
      ecs_credit |-> ecs_credit(srt, month_date),
      ecs_pvt_credit |-> ecs_pvt_credit(srt, month_date),
      bt_count |-> calculate_monthly_count(srt, month_date, "BT", <<>>).value,
      cash_count |->
          calculate_monthly_count(srt, month_date, "BT",
                                  << <<"C1", CashDeposit>> >>).value
          + calculate_monthly_count(srt, month_date, "BT",
                                    << <<"C1", CashWithdrawal>> >>).value ]

EcsRowPlaceholder(i, data) == NanCell

\* Rows 11..14, labelled as loan rows, carry the four ECS sums.
EcsRowValue(i, data) ==
    IF i = 11 THEN N(data.ecs_debit)
    ELSE IF i = 12 THEN N(data.ecs_pvt_debit)
    ELSE IF i = 13 THEN N(data.ecs_credit)
    ELSE N(data.ecs_pvt_credit)

\* The cell of monthly row i (1..23) for one month.
MonthlyValue(i, data) ==
    IF i = 1 THEN N(data.eod_balance)
    ELSE IF i = 2 THEN N(data.bt_credit)
    ELSE IF i = 3 THEN N(data.bt_debit)
    ELSE IF i = 4 THEN N(data.expense)
    ELSE IF i = 5 \/ i = 6 THEN NanCell
    ELSE IF i = 7 THEN N(data.zih_credit)
    ELSE IF i = 8 THEN N(data.zih_debit)
    ELSE IF i = 9 THEN N(data.dbt_credit)
    ELSE IF i = 10 THEN N(data.dbt_debit)
    ELSE IF i \in 11..14 THEN EcsRowValue(i, data)
    ELSE IF i = 15 THEN N(data.zih_credit - data.zih_debit)
    ELSE IF i = 16 THEN N(data.bt_credit - data.bt_debit - data.expense)
    ELSE IF i = 17 THEN N(data.ecs_credit - data.ecs_debit)
    ELSE IF i = 18 THEN N(data.ecs_pvt_credit - data.ecs_pvt_debit)
    ELSE IF i = 19 THEN N(data.dbt_credit - data.dbt_debit)
    ELSE IF i = 20 THEN N(data.bt_credit - data.bt_debit - data.expense
                          + data.zih_credit - data.zih_debit
                          + data.ecs_credit - data.ecs_debit
                          + data.ecs_pvt_credit - data.ecs_pvt_debit)
    ELSE IF i = 21 THEN NanCell
    ELSE IF i = 22 THEN N(data.cash_count)
    ELSE IF i = 23 THEN N(data.bt_count)
    ELSE N(0)

\* Text cells of the literal strings of summary_data and scoring_data.
Dash == T(<<"-">>)
Lit(a, b, c) == T(IntToStr(a) \o <<".", Digit(b), Digit(c)>>)
NumError == T(<<"#", "N", "U", "M", "!">>)

\* The 11 cells of one row of summary_data: a label, the cell after it, five
\* empty strings, two text cells and two empty strings.
SummaryRow(label, second, eighth, ninth) ==
    <<L(label), second, E, E, E, E, E, eighth, ninth, E, E>>

\* One row of scoring_data as laid out in all_data: every row of scoring_data
\* has at least 3 items, so the branch taken is the first one.
ScoringRow(metric, value, score) ==
    Rep(E, 8) \o <<L(metric)>> \o Rep(E, 7) \o <<value, score>>

\* pd.DataFrame(all_data): rows shorter than the longest are padded with None.
DataFrame(all_data) ==
    LET width == IF all_data = <<>> THEN 0
                 ELSE SetMax({Len(all_data[r]) : r \in 1..Len(all_data)})
    IN [r \in 1..Len(all_data) |->
           all_data[r] \o Rep(NoneCell, width - Len(all_data[r]))]

\* row + [''] * (len(header_data) - len(row))
RowPad(row, header_data) == row \o Rep(E, Len(header_data) - Len(row))

\* date_columns: start_date + relativedelta(months=i) for i in range(num_months).
DateColumns(start_date, num_months) ==
    [i \in 1..Max(num_months, 0) |-> AddMonths(start_date, i - 1)]

\* monthly_data, keyed M1, M2, ... in the code, by position here.
MonthlyDataAll(srt, date_columns) ==
    [j \in 1..Len(date_columns) |-> MonthlyData(srt, date_columns[j])]

HeaderData(date_columns) ==
    <<E>> \o [j \in 1..Len(date_columns) |-> T(StrfDate(date_columns[j]))]
          \o <<E, E, E, E>>

MonthlyValues(monthly_data) ==
    [i \in 1..Len(monthly_labels) |->
        <<L(monthly_labels[i])>>
        \o [j \in 1..Len(monthly_data) |-> MonthlyValue(i, monthly_data[j])]
        \o <<E, E, E, E>>]

\* summary_data; num_months # 0.
SummaryData(num_months, bt_credits, bt_debits, avg_eod) ==
    LET avg_eod_s == T(FormatFloat(avg_eod, 2))
        sum_cr    == SeqSum(bt_credits)
        sum_dr    == SeqSum(bt_debits)
    IN << SummaryRow("Available Months", N(num_months),
                     T(IntToStr(num_months) \o <<".", "0", "0">>), E),
          SummaryRow("Average EOD monthly balance", E, avg_eod_s, E),
          SummaryRow("OD Limit", E, Dash, E),
          SummaryRow("Available Balance / Limit", E, avg_eod_s, E),
          SummaryRow("SALES/PURCHASES", E, E, E),
          SummaryRow("Credit (BT)", N(sum_cr),
                     T(FormatQuotient(sum_cr, 1, 0)),
                     T(FormatQuotient(sum_cr * 12, num_months, 0))),
          SummaryRow("Debit (BT)", N(sum_dr),
                     T(FormatQuotient(sum_dr, 1, 0)),
                     T(FormatQuotient(sum_dr * 12, num_months, 0))) >>

\* scoring_data as laid out in all_data, from the four computed metrics and
\* the ratio of the average balance to the mean BT credit.
ScoringData(dy_ratio, credit_volatility, debit_volatility, sales_trend, purchase_trend) ==
    << ScoringRow("SALES/PURCHASES", E, E),
       ScoringRow("OD vs Credit (BT)", Dash, Dash),
       ScoringRow("OD Consumption", E, E),
       ScoringRow("Dy. BT. Cr/Avg .Dy.Bal", T(FormatFloat(dy_ratio, 2)), Lit(2, 0, 0)),
       ScoringRow("Credit (BT) Volatality", T(FormatRoot(credit_volatility)), E),
       ScoringRow("Debit (BT) Volatality", T(FormatRoot(debit_volatility)), E),
       ScoringRow("In house Ratio", Lit(0, 2, 7), E),
       ScoringRow("ITA (Cr) Ratio", E, Lit(2, 0, 0)),
       ScoringRow("Sales trend", T(FormatFloat(sales_trend, 2)), Lit(5, 0, 0)),
       ScoringRow("Purchase trend", T(FormatFloat(purchase_trend, 2)), Lit(2, 0, 0)),
       ScoringRow("Cash Trn Ratio (Deposit)", E, E),
       ScoringRow("Cash Trn Ratio (Withdrawal)", E, E),
       ScoringRow("Cheque Trn ratio (BT/ECS)", Lit(0, 2, 0), Lit(4, 0, 0)),
       ScoringRow("Cheque Rtn count (BT/ECS)", E, E),
       ScoringRow("Cheque Dishonor/Penalty ratio (BT/ECS)", E, E),
       ScoringRow("LOANS", E, E),
       ScoringRow("EMI Pvt Trend", Lit(1, 0, 0), E),
       ScoringRow("EMI to Inflow (BT) ratio - Pvt", Lit(0, 1, 4), Lit(4, 0, 0)),
       ScoringRow("EMI to Inflow (BT) ratio - Bank", Lit(0, 0, 1), Lit(5, 0, 0)),
       ScoringRow("Liquidity stress indicator (LSI)", Lit(11, 5, 7),
                  T(<<"-", "5", ".", "0", "0">>)),
       ScoringRow("Loan Trend Bank", Lit(1, 0, 0), E),
       ScoringRow("Loan Trend Pvt", Lit(1, 0, 0), E),
       ScoringRow("Debt Dependence Ratio (DDR Bank)", Lit(0, 0, 3), Lit(5, 0, 0)),
       ScoringRow("Debt Dependence Ratio Pvt (DDR Pvt)", Lit(0, 3, 4), Lit(2, 0, 0)),
       ScoringRow("EMI pvt vs Cheque pmt", E, Lit(5, 0, 0)),
       ScoringRow("ECS vs ECS pmt", Lit(0, 1, 9), E),
       ScoringRow("ECS return count", E, E),
       ScoringRow("Cheque Rtn count (ECS Pvt)", E, E),
       ScoringRow("Cheque Dishonor/Penalty ratio (ECS PVT)", E, E),
       ScoringRow("Loan Roll Over Ratio", Lit(3, 5, 5), E),
       ScoringRow("OTHERS", E, E),
       ScoringRow("GST Volatality", E, E),
       ScoringRow("Utility Volatality", E, E),
       ScoringRow("Transaction volatality", Lit(0, 1, 9), E),
       ScoringRow("Max. Loan repayment to Net inflow", E, E),
       ScoringRow("Top 2 Credit ratio", NumError, E) >>

\* avg_eod / np.mean(bt_credits) if np.mean(bt_credits) > 0 else 0
DyRatio(avg_eod, mean_cr) ==
    IF FIsPositive(mean_cr) THEN FDiv(avg_eod, mean_cr) ELSE Fin(0, 1)

\* all_data: header, monthly rows, padded summary rows, spacer, scoring rows.
AllData(header_data, monthly_values, summary_data, scoring_data) ==
    <<header_data>>
    \o monthly_values
    \o [r \in 1..Len(summary_data) |-> RowPad(summary_data[r], header_data)]
    \o <<Rep(E, Len(header_data))>>
    \o scoring_data

\* Lines 383-477 given monthly_data: the summary (whose annualised totals
\* divide by num_months), the metrics, the layout, the DataFrame.
Assemble(num_months, date_columns, monthly_data) ==
    LET bt_credits == [j \in 1..Len(monthly_data) |-> monthly_data[j].bt_credit]
        bt_debits  == [j \in 1..Len(monthly_data) |-> monthly_data[j].bt_debit]
        avg_eod    == NpMean([j \in 1..Len(monthly_data) |-> monthly_data[j].eod_balance])
    IN IF num_months = 0 THEN Raise("ZeroDivisionError")
       ELSE Ok(DataFrame(AllData(
                HeaderData(date_columns),
                MonthlyValues(monthly_data),
                SummaryData(num_months, bt_credits, bt_debits, avg_eod),
                ScoringData(DyRatio(avg_eod, NpMean(bt_credits)),
                            calculate_volatility(bt_credits),
                            calculate_volatility(bt_debits),
                            calculate_trend_ratio(bt_credits),
                            calculate_trend_ratio(bt_debits)))))

\* The body of generate_stat_data past its guard, for a frame whose dates
\* compare: Ok(frame to store in stat_data) or the exception raised.
BuildStat(srt, start_date, num_months) ==
    Assemble(num_months, DateColumns(start_date, num_months),
             MonthlyDataAll(srt, DateColumns(start_date, num_months)))

\* generate_stat_data: its guard, the first query (which raises when the Date
\* column does not compare; with num_months < 1 no query is made), the rest.
generate_stat_data(srt, start_date, num_months) ==
    IF srt = None THEN Raise("ValueError")
    ELSE IF num_months >= 1 /\ CompareRaises(srt[1]) THEN Raise("TypeError")
    ELSE BuildStat(srt, start_date, num_months)

\* A run that takes the first transaction off the ledger it has reported on.
GenerateStatDataConsuming(start_date, num_months) ==
    LET outcome == generate_stat_data(srt_data, start_date, num_months)
    IN /\ stat_data' = IF outcome.status = "ok" THEN Some(outcome.value) ELSE stat_data
       /\ result' = Call("generate_stat_data",
                         [start_date |-> start_date, num_months |-> num_months],
                         IF outcome.status = "ok" THEN Ok(None) ELSE outcome)
       /\ srt_data' = IF outcome.status = "ok" /\ srt_data[1].rows # <<>>
                      THEN Some([srt_data[1] EXCEPT !.rows = Tail(@)])
                      ELSE srt_data
       /\ UNCHANGED load_ok

\* self.stat_data is assigned by the last statement only, so a call that
\* raises leaves the field as it was.  The frame returned is self.stat_data.
GenerateStatData(start_date, num_months) ==
    LET outcome == generate_stat_data(srt_data, start_date, num_months)
    IN /\ stat_data' = IF outcome.status = "ok" THEN Some(outcome.value) ELSE stat_data
       /\ result' = Call("generate_stat_data",
                         [start_date |-> start_date, num_months |-> num_months],
                         IF outcome.status = "ok" THEN Ok(None) ELSE outcome)
       /\ UNCHANGED <<srt_data, load_ok>>

\* write_output_file: raises unless both fields are set; otherwise the two
\* frames go to the SRT and STAT sheets of the output workbook (the value
\* recorded for the call) and the fields stay as they are.  The styling of
\* _format_sheets changes no cell value.
WriteOutputFile ==
    /\ result' = Call("write_output_file", <<>>,
                      IF srt_data = None \/ stat_data = None
                      THEN Raise("ValueError")
                      ELSE Ok(Some([SRT |-> srt_data[1], STAT |-> stat_data[1]])))
    /\ UNCHANGED <<srt_data, stat_data, load_ok>>

CalculateVolatility(values) ==
    /\ result' = Call("calculate_volatility", [values |-> values],
                      Ok(calculate_volatility(values)))
    /\ UNCHANGED <<srt_data, stat_data, load_ok>>

CalculateTrendRatio(values) ==
    /\ result' = Call("calculate_trend_ratio", [values |-> values],
                      Ok(calculate_trend_ratio(values)))
    /\ UNCHANGED <<srt_data, stat_data, load_ok>>

CalculateScore(value, scoring_rules) ==
    /\ result' = Call("calculate_score",
                      [value |-> value, scoring_rules |-> scoring_rules],
                      calculate_score(value, scoring_rules))
    /\ UNCHANGED <<srt_data, stat_data, load_ok>>

(***************************************************************************)
(* Inputs of the query specification                                       *)
(***************************************************************************)
MaxRows == 2

ChequeRTN == <<"C","h","e","q","u","e"," ","R","T","N">>
ChequeRtnLower == <<"C","h","e","q","u","e"," ","r","t","n">>

\* Row dates at the ends of the two windows (Jan 31, Feb 28] and
\* (Feb 28, Mar 31] of 2025.
QDates == <<DateCell(2025, 1, 31), DateCell(2025, 2, 28), DateCell(2025, 3, 31)>>

\* What a row carries besides its date: group, descriptors, amounts.
QKinds ==
    << [GRP |-> "BT", C1 |-> Text(CashDeposit), C2 |-> NoText,
        Debit |-> NaN, Credit |-> Num(100)],
       [GRP |-> "BT", C1 |-> Text(CashWithdrawal), C2 |-> Text(ChequeRTN),
        Debit |-> Num(30), Credit |-> NaN],
       [GRP |-> "bt", C1 |-> NoText, C2 |-> Text(ChequeRtnLower),
        Debit |-> Num(7), Credit |-> Num(5)] >>

\* The running balance is distinct for every row of the universe.  One row
\* has an empty date cell.
QRows ==
    { Row(QDates[d], QKinds[k].GRP, QKinds[k].C1, QKinds[k].C2,
          QKinds[k].Debit, QKinds[k].Credit, 10 * k + d) :
        d \in 1..Len(QDates), k \in 1..Len(QKinds) }
    \cup { Row(NoDate, "BT", Text(CashDeposit), NoText, NaN, Num(100), 99) }

SeqsUpTo(S, n) == UNION { [1..k -> S] : k \in 0..n }

AllColumns == {"Date", "GRP", "C1", "C2", "Debit", "Credit", "Balance"}

\* The rows of a sheet that has no C1 column carry no C1 descriptor.
WithoutC1(rows) == [i \in 1..Len(rows) |-> [rows[i] EXCEPT !.C1 = NoText]]

\* Sheets with and without the C1 column.
QFiles ==
    { File(TRUE, AllColumns, rows) : rows \in SeqsUpTo(QRows, MaxRows) }
    \cup { File(TRUE, AllColumns \ {"C1"}, WithoutC1(rows)) :
             rows \in SeqsUpTo(QRows, MaxRows) }

QAnchors == {Date(2025, 3, 15), Date(2025, 2, 28)}
QGroups == {"BT", "EXP"}
QConditions ==
    { <<>>, << <<"C1", CashDeposit>> >>, << <<"C1", CashWithdrawal>> >>,
      << <<"Debit", <<">", "2", "5">>>> >>, << <<"C2", <<"<", ">">> \o RTN>> >> }

\* A query reads srt_data only, so the specification makes one query per
\* processor: on a fresh one, or right after the one load.
Fresh == result.op = "__init__"
JustLoaded == result.op = "read_srt_data"

NextQ ==
    \/ \E file \in QFiles : Fresh /\ ReadSrtData(file)
    \/ \E d \in QAnchors, g \in QGroups, c \in {"Debit", "Credit"}, x \in BOOLEAN :
          (Fresh \/ JustLoaded) /\ CalculateMonthlySum(d, g, c, x)
    \/ \E d \in QAnchors :
          (Fresh \/ JustLoaded) /\ CalculateEodBalance(d)
    \/ \E d \in QAnchors, g \in QGroups \cup {""}, cf \in QConditions :
          (Fresh \/ JustLoaded) /\ CalculateMonthlyCount(d, g, cf)

SpecQ == Init /\ [][NextQ]_vars

(***************************************************************************)
(* The command-line run: process_xlsx.main                                 *)
(***************************************************************************)
MaxMonths == 2

\* Start dates as parsed from --start-date: a month's last day and a mid-month day.
MStarts == {Date(2025, 1, 31), Date(2025, 2, 15)}

\* --months is any int; the run has no check on it.
MMonths == (0 - 1)..MaxMonths

\* One row per group with "RTN" in C2, both amounts present and distinct from
\* group to group, and an ECS and an ECS Pvt row without the marker.
MKinds ==
    << [GRP |-> "BT", C1 |-> Text(CashDeposit), C2 |-> Text(ChequeRTN),
        Debit |-> Num(2), Credit |-> Num(3)],
       [GRP |-> "EXP", C1 |-> NoText, C2 |-> Text(ChequeRTN),
        Debit |-> Num(4), Credit |-> Num(1)],
       [GRP |-> "ZIH", C1 |-> NoText, C2 |-> Text(ChequeRTN),
        Debit |-> Num(5), Credit |-> Num(6)],
       [GRP |-> "DBT", C1 |-> NoText, C2 |-> Text(ChequeRTN),
        Debit |-> Num(7), Credit |-> Num(8)],
       [GRP |-> "ecs", C1 |-> NoText, C2 |-> Text(ChequeRTN),
        Debit |-> Num(50), Credit |-> Num(9)],
       [GRP |-> "ecs pvt", C1 |-> NoText, C2 |-> Text(ChequeRTN),
        Debit |-> Num(20), Credit |-> Num(11)],
       [GRP |-> "ecs", C1 |-> NoText, C2 |-> NoText,
        Debit |-> Num(13), Credit |-> NaN],
       [GRP |-> "ecs pvt", C1 |-> NoText, C2 |-> Text(ChequeRtnLower),
        Debit |-> Num(17), Credit |-> NaN] >>

\* Every kind of row dated 2025-01-31, and the BT and ECS kinds dated
\* 2025-02-28 as well; the balance is distinct for every row.
MRows ==
    { Row(DateCell(2025, 1, 31), MKinds[k].GRP, MKinds[k].C1, MKinds[k].C2,
          MKinds[k].Debit, MKinds[k].Credit, 10 * k + 1) : k \in 1..Len(MKinds) }
    \cup
    { Row(DateCell(2025, 2, 28), MKinds[k].GRP, MKinds[k].C1, MKinds[k].C2,
          MKinds[k].Debit, MKinds[k].Credit, 10 * k + 2) : k \in {1, 5, 7, 8} }

MFiles == { File(TRUE, AllColumns, rows) : rows \in SeqsUpTo(MRows, MaxRows) }

\* main(): read_srt_data, generate_stat_data, write_output_file, each called
\* once and only if the call before it returned; an exception ends the run.
MainRead(file) == Fresh /\ ReadSrtData(file)

MainGenerate(start_date, num_months) ==
    /\ result.op = "read_srt_data" /\ result.status = "ok"
    /\ GenerateStatData(start_date, num_months)

MainWrite ==
    /\ result.op = "generate_stat_data" /\ result.status = "ok"
    /\ WriteOutputFile

NextMain ==
    \/ \E file \in MFiles : MainRead(file)
    \/ \E start_date \in MStarts, num_months \in MMonths :
          MainGenerate(start_date, num_months)
    \/ MainWrite

SpecMain == Init /\ [][NextMain]_vars

(***************************************************************************)
(* The processor as a library: any sequence of calls                       *)
(***************************************************************************)
\* A sheet of one row whose Date cell is the given one.
OneRow(cell, balance) ==
    <<Row(cell, "BT", Text(CashDeposit), NoText, Num(2), Num(3), balance)>>

\* A workbook that cannot be read, sheets whose only date is a date, a text
\* that parses, an empty cell or a text that does not parse, a sheet with a
\* good row before a row whose date does not parse, and a sheet that has no
\* C1 column.
AFiles ==
    { File(FALSE, {}, <<>>),
      File(TRUE, AllColumns, OneRow(DateCell(2025, 1, 31), 1)),
      File(TRUE, AllColumns, OneRow(DateText(2025, 1, 31), 2)),
      File(TRUE, AllColumns, OneRow(NoDate, 3)),
      File(TRUE, AllColumns, OneRow(BadText, 4)),
      File(TRUE, AllColumns, OneRow(DateCell(2025, 1, 31), 5) \o OneRow(BadText, 6)),
      File(TRUE, AllColumns \ {"C1"}, WithoutC1(OneRow(DateCell(2025, 1, 31), 7))) }

AStart == Date(2025, 1, 31)

Next ==
    \/ \E file \in AFiles : ReadSrtData(file)
    \/ CalculateMonthlySum(AStart, "BT", "Credit", FALSE)
    \/ CalculateEodBalance(AStart)
    \/ CalculateMonthlyCount(AStart, "BT", <<>>)
    \/ \E num_months \in MMonths : GenerateStatData(AStart, num_months)
    \/ WriteOutputFile

Spec == Init /\ [][Next]_vars

(***************************************************************************)
(* The month windows of a report: start dates on every kind of day         *)
(***************************************************************************)
GetMonthEndDate(date) ==
    /\ result' = Call("get_month_end_date", [date |-> date],
                      Ok(get_month_end_date(date)))
    /\ UNCHANGED <<srt_data, stat_data, load_ok>>

GetPreviousMonthEndDate(date) ==
    /\ result' = Call("get_previous_month_end_date", [date |-> date],
                      Ok(get_previous_month_end_date(date)))
    /\ UNCHANGED <<srt_data, stat_data, load_ok>>

MaxSpan == 13

\* The dates of a common and of a leap year that fall on the first day of a
\* month or on one of its last days.
CStarts ==
    { date \in { Date(y, m, d) : y \in {2023, 2024}, m \in 1..12,
                                 d \in {1, 28, 29, 30, 31} } :
        date.day <= DaysInMonth(date.year, date.month) }

\* A readable sheet with no transactions.
EmptyFile == File(TRUE, AllColumns, <<>>)

NextCal ==
    \/ \E date \in CStarts : Fresh /\ GetMonthEndDate(date)
    \/ \E date \in CStarts : Fresh /\ GetPreviousMonthEndDate(date)
    \/ Fresh /\ ReadSrtData(EmptyFile)
    \/ \E start_date \in CStarts, num_months \in 1..MaxSpan :
          JustLoaded /\ GenerateStatData(start_date, num_months)

SpecCal == Init /\ [][NextCal]_vars

(***************************************************************************)
(* Inputs of the derived-metrics specification                             *)
(***************************************************************************)
MaxLen == 5
MaxRules == 2

SeriesValues == {0 - 2, 0, 1, 3}
ScoreValues == {NaN, Num(0), Num(0 - 5), Num(50), Num(100), Num(150), Num(200), Num(250)}
ScoreRules == SeqsUpTo({100, 200} \X {1, 2}, MaxRules)

\* The three functions read no field of the processor: one call each on a
\* fresh processor.
NextFn ==
    \/ \E values \in SeqsUpTo(SeriesValues, MaxLen) :
          Fresh /\ CalculateVolatility(values)
    \/ \E values \in SeqsUpTo(SeriesValues, MaxLen) :
          Fresh /\ CalculateTrendRatio(values)
    \/ \E value \in ScoreValues, rules \in ScoreRules :
          Fresh /\ CalculateScore(value, rules)

SpecFn == Init /\ [][NextFn]_vars

(***************************************************************************)
(* Properties                                                              *)
(***************************************************************************)
\* An amount with absent counted as zero.
Amount(row, column) == IF row[column].nan THEN 0 ELSE row[column].v

RECURSIVE SetSum(_, _)
SetSum(S, f) ==
    IF S = {} THEN 0
    ELSE LET x == CHOOSE y \in S : TRUE IN f[x] + SetSum(S \ {x}, f)

HasPositive(xs) == \E i \in 1..Len(xs) : xs[i] > 0

\* C1 (as stated): for a series of at least 3 values whose older half holds no
\* strictly positive value, calculate_trend_ratio returns 1.0 when the recent
\* half holds none either, and positive infinity when it holds one.
C1_ZeroOlderHalf ==
    (result.op = "calculate_trend_ratio" /\ Len(result.args.values) >= 3
       /\ ~HasPositive(Take(result.args.values, Len(result.args.values) \div 2)))
    => result.value =
         (IF HasPositive(From(result.args.values, Len(result.args.values) \div 2))
          THEN FInf ELSE Fin(1, 1))

\* C2 (as stated): a report requested with num_months < 1 ends in an error and
\* produces no report: stat_data stays unset.
C2_RejectsNonPositiveMonths ==
    (result.op = "generate_stat_data" /\ result.args.num_months < 1)
    => (result.status = "error" /\ stat_data = None)

\* C3 (as stated): for num_months N >= 1 every row of the report grid has as
\* many cells as the header row, which is N + 5.
C3_EqualRowLengths ==
    (result.op = "generate_stat_data" /\ result.status = "ok"
       /\ result.args.num_months >= 1)
    => \A r \in 1..Len(stat_data[1]) :
          Len(stat_data[1][r]) = result.args.num_months + 5

\* A sheet with a row whose date is absent or is text that is not a date.
LacksParseableDate(file) ==
    \E i \in 1..Len(file.rows) : file.rows[i].Date.k \in {"none", "badtext"}

\* C5 (as stated): read_srt_data of a sheet in which some row lacks a parseable
\* date ends in an error and leaves srt_data as it was before the call.
C5_LoadAllOrNothing ==
    [][ (result'.op = "read_srt_data" /\ result' # result
           /\ result'.args.exists /\ LacksParseableDate(result'.args))
        => (result'.status = "error" /\ srt_data' = srt_data) ]_vars

QueryOps ==
    {"calculate_monthly_sum", "calculate_eod_balance", "calculate_monthly_count",
     "generate_stat_data"}

\* C6 (as stated): while no load has succeeded, each of the three queries and
\* generate_stat_data ends in an error and leaves srt_data and stat_data
\* unset, and write_output_file ends in an error.
C6_NothingBeforeLoad ==
    ~load_ok
    => /\ result.op \in QueryOps
            => (result.status = "error" /\ srt_data = None /\ stat_data = None)
       /\ result.op = "write_output_file" => result.status = "error"

\* The cell of monthly row i (1..23) for month j (1..N) in the report grid:
\* the header is the grid's first row and the label each row's first cell.
GridCell(i, j) == stat_data[1][i + 1][j + 1]

\* The anchor of month j of the report just generated.
Anchor(j) == AddMonths(result.args.start_date, j - 1)

\* Rows of the loaded ledger that a monthly sum for (anchor, group) is about:
\* group equal to the filter and previousMonthEnd(anchor) < date <= monthEnd(anchor).
C7_Matching(rows, anchor, group) ==
    { i \in 1..Len(rows) :
        /\ rows[i].GRP = group
        /\ rows[i].Date.k = "date"
        /\ DateOrd(get_previous_month_end_date(anchor)) < DateOrd(rows[i].Date)
        /\ DateOrd(rows[i].Date) <= DateOrd(get_month_end_date(anchor)) }

\* C7: calculate_monthly_sum without exclusion returns the sum of the column,
\* absent amounts as zero, over exactly the rows of the group dated in
\* (previousMonthEnd(anchor), monthEnd(anchor)], and 0 when there is none.
C7_FilteredSum ==
    (result.op = "calculate_monthly_sum" /\ srt_data # None
       /\ ~result.args.exclude_rtn)
    => LET rows == srt_data[1].rows
           hit  == C7_Matching(rows, result.args.base_date, result.args.group_filter)
       IN /\ result.status = "ok"
          /\ result.value =
               SetSum(hit, [i \in 1..Len(rows) |-> Amount(rows[i], result.args.column)])
          /\ (hit = {} => result.value = 0)

\* C7 witness: a sum over a ledger with a row of the group dated monthEnd and
\* another dated previousMonthEnd, both with an amount, that counts the first
\* and not the second.
C7_Witness ==
    /\ result.op = "calculate_monthly_sum" /\ srt_data # None
    /\ ~result.args.exclude_rtn /\ result.status = "ok"
    /\ LET rows == srt_data[1].rows
           a == result.args
       IN \E i, j \in 1..Len(rows) :
            /\ rows[i].GRP = a.group_filter /\ rows[j].GRP = a.group_filter
            /\ rows[i].Date.k = "date" /\ rows[j].Date.k = "date"
            /\ DateOrd(rows[i].Date) = DateOrd(get_month_end_date(a.base_date))
            /\ DateOrd(rows[j].Date) = DateOrd(get_previous_month_end_date(a.base_date))
            /\ Amount(rows[i], a.column) > 0 /\ Amount(rows[j], a.column) > 0
            /\ result.value = Amount(rows[i], a.column)

\* A C2 cell that carries the marker: three consecutive characters R, T, N.
HasRTN(cell) ==
    ~cell.na /\ \E p \in 1..(Len(cell.s) - 2) : SubSeq(cell.s, p, p + 2) = <<"R", "T", "N">>

\* The sum of a column over the rows of a group in the window of an anchor,
\* with the rows marked RTN left out when skip_rtn.
WindowSum(rows, anchor, group, column, skip_rtn) ==
    SetSum({ i \in C7_Matching(rows, anchor, group) : ~(skip_rtn /\ HasRTN(rows[i].C2)) },
           [i \in 1..Len(rows) |-> Amount(rows[i], column)])

ReportGenerated ==
    /\ result.op = "generate_stat_data" /\ result.status = "ok"
    /\ result.args.num_months >= 1

\* C4 (as stated): the month cells of the rows 'Monthly Loan payments Bank',
\* 'Monthly Loan payments Pvt', 'Loan received Bank' and 'Loan received Pvt'
\* (monthly rows 11..14) are the same for every ledger: they are what the
\* same configuration gives for the ledger without rows.
C4_LoanRowsIgnoreLedger ==
    ReportGenerated
    => LET empty == Some(Frame(srt_data[1].columns, <<>>))
           ref   == BuildStat(empty, result.args.start_date,
                              result.args.num_months).value
       IN \A i \in 11..14, j \in 1..result.args.num_months :
             GridCell(i, j) = ref[i + 1][j + 1]

\* C4 (amended): the month cells of monthly rows 11..14 are computed from the
\* ledger: they are the month's sums of ECS debits and ECS Pvt debits (rows
\* marked RTN left out) and of ECS credits and ECS Pvt credits.
C4_LoanRowsAreEcsSums ==
    ReportGenerated
    => LET rows == srt_data[1].rows
       IN \A j \in 1..result.args.num_months :
            /\ monthly_labels[11] = "Monthly Loan payments Bank"
            /\ GridCell(11, j) = N(WindowSum(rows, Anchor(j), "ecs", "Debit", TRUE))
            /\ monthly_labels[12] = "Monthly Loan payments Pvt"
            /\ GridCell(12, j) = N(WindowSum(rows, Anchor(j), "ecs pvt", "Debit", TRUE))
            /\ monthly_labels[13] = "Loan received Bank"
            /\ GridCell(13, j) = N(WindowSum(rows, Anchor(j), "ecs", "Credit", FALSE))
            /\ monthly_labels[14] = "Loan received Pvt"
            /\ GridCell(14, j) = N(WindowSum(rows, Anchor(j), "ecs pvt", "Credit", FALSE))

\* C4 witness: a report whose rows 'Monthly Loan payments Bank' and 'Loan
\* received Bank' carry, for its first month, nonzero numbers taken from a
\* two-row ledger.
C4_Witness ==
    /\ ReportGenerated
    /\ Len(srt_data[1].rows) = 2
    /\ \A i \in {11, 13} : GridCell(i, 1).t = "num" /\ GridCell(i, 1).n > 0

\* The nine sums of the table that keep the rows marked RTN: the monthly row
\* that shows each, its group and its column.
C8_Unfiltered ==
    { <<2, "BT", "Credit">>, <<3, "BT", "Debit">>, <<4, "EXP", "Debit">>,
      <<7, "ZIH", "Credit">>, <<8, "ZIH", "Debit">>,
      <<9, "DBT", "Credit">>, <<10, "DBT", "Debit">>,
      <<13, "ecs", "Credit">>, <<14, "ecs pvt", "Credit">> }

\* C8: in every monthly aggregate ecs_debit and ecs_pvt_debit (monthly rows 11
\* and 12) leave out the rows whose C2 contains "RTN", and the nine other sums
\* count them.
C8_RtnExclusion ==
    ReportGenerated
    => LET rows == srt_data[1].rows
       IN \A j \in 1..result.args.num_months :
            /\ GridCell(11, j) = N(WindowSum(rows, Anchor(j), "ecs", "Debit", TRUE))
            /\ GridCell(12, j) = N(WindowSum(rows, Anchor(j), "ecs pvt", "Debit", TRUE))
            /\ \A e \in C8_Unfiltered :
                  GridCell(e[1], j) = N(WindowSum(rows, Anchor(j), e[2], e[3], FALSE))

\* C8 witness: the ledger is one 'ecs' debit of 50 marked 'Cheque RTN' in the
\* first month; ecs_debit is 0 while the same sum without exclusion is 50 and
\* the row's credit is counted in ecs_credit.
C8_Witness ==
    /\ ReportGenerated
    /\ Len(srt_data[1].rows) = 1
    /\ LET row == srt_data[1].rows[1]
       IN /\ row.GRP = "ecs" /\ row.C2 = Text(ChequeRTN) /\ row.Debit = Num(50)
          /\ GridCell(11, 1) = N(0)
          /\ WindowSum(srt_data[1].rows, Anchor(1), "ecs", "Debit", FALSE) = 50
          /\ GridCell(13, 1).n > 0

\* Rows dated on or before monthEnd(anchor).
C9_Qualifying(rows, anchor) ==
    { i \in 1..Len(rows) :
        rows[i].Date.k = "date"
        /\ DateOrd(rows[i].Date) <= DateOrd(get_month_end_date(anchor)) }

\* C9: calculate_eod_balance returns the balance of the row that comes last in
\* input order among those dated on or before monthEnd(anchor), whatever the
\* order of the dates, and 0 when there is no such row.
C9_EodBalance ==
    (result.op = "calculate_eod_balance" /\ srt_data # None)
    => LET rows == srt_data[1].rows
           q    == C9_Qualifying(rows, result.args.base_date)
       IN /\ result.status = "ok"
          /\ IF q = {} THEN result.value = 0
             ELSE \E i \in q : /\ \A j \in q : j <= i
                               /\ result.value = rows[i].Balance

\* C9 witness: the ledger is not sorted by date; the row chosen has an earlier
\* date than a qualifying row before it, and that row's balance is another one.
C9_Witness ==
    /\ result.op = "calculate_eod_balance" /\ srt_data # None
    /\ result.status = "ok"
    /\ LET rows == srt_data[1].rows
           q    == C9_Qualifying(rows, result.args.base_date)
       IN \E i, j \in q :
            /\ \A l \in q : l <= i
            /\ j < i
            /\ DateOrd(rows[i].Date) < DateOrd(rows[j].Date)
            /\ result.value = rows[i].Balance
            /\ rows[j].Balance # rows[i].Balance

Ascending(rules) ==
    \A i \in 1..(Len(rules) - 1) : rules[i][1] <= rules[i + 1][1]

\* C10: for a non-empty ascending rule list calculate_score returns 0 for a
\* value that is 0 or NaN, otherwise the score of the first rule in list order
\* whose threshold is >= value, and the last rule's score when there is none.
C10_Score ==
    (result.op = "calculate_score" /\ result.args.scoring_rules # <<>>
       /\ Ascending(result.args.scoring_rules))
    => LET rules == result.args.scoring_rules
           value == result.args.value
           hits  == { i \in 1..Len(rules) : rules[i][1] >= value.v }
       IN /\ result.status = "ok"
          /\ result.value =
               (IF value.nan \/ value.v = 0 THEN 0
                ELSE IF hits = {} THEN rules[Len(rules)][2]
                ELSE rules[SetMin(hits)][2])

\* C10 witness: score(150, [(100,1),(200,2)]) has been computed and is 2.
C10_Witness ==
    /\ result.op = "calculate_score"
    /\ result.args.value = Num(150)
    /\ result.args.scoring_rules = << <<100, 1>>, <<200, 2>> >>
    /\ result.status = "ok" /\ result.value = 2

IsPositive(v) == v > 0

\* The sum over a series xs of (n x - s)^2, n the length and s the sum of xs:
\* n^2 (n - 1) times the sample variance of xs.
ScaledDeviations(xs) ==
    LET n == Len(xs)
        sm == SeqSum(xs)
    IN SeqSum([i \in 1..n |-> (n * xs[i] - sm) * (n * xs[i] - sm)])

\* C11: calculate_volatility depends only on the strictly positive elements of
\* values: it is 0.0 when fewer than two are strictly positive, otherwise the
\* sample standard deviation (divisor n - 1) of the positive elements over
\* their mean, which is 0.0 when they are all equal.  With the square v of the
\* result: v * (n - 1) * s^2 = sum of (n x - s)^2 over the positive elements.
C11_Volatility ==
    (result.op = "calculate_volatility")
    => LET pos == SelectSeq(result.args.values, IsPositive)
           n   == Len(pos)
           sm  == SeqSum(pos)
           v   == result.value.sq
       IN /\ result.status = "ok"
          /\ v.k = "fin" /\ v.den > 0 /\ v.num >= 0
          /\ IF n < 2 THEN v.num = 0
             ELSE /\ v.num * ((n - 1) * sm * sm) = v.den * ScaledDeviations(pos)
                  /\ (\A i \in 1..n : pos[i] = pos[1]) => v.num = 0

\* C11 witness: the volatility of [-2, 1, 0, 3] has been computed: of its four
\* values two are strictly positive, with mean 2 and sample variance 2, so the
\* square of the result is 2 / 4.
C11_Witness ==
    /\ result.op = "calculate_volatility"
    /\ result.args.values = <<0 - 2, 1, 0, 3>>
    /\ result.value.sq = Fin(1, 2)

\* C12: calculate_trend_ratio returns 1.0 for every series of fewer than 3
\* values; for n >= 3 values whose halves values[:n // 2] and values[n // 2:]
\* both hold a strictly positive value it returns the average of the strictly
\* positive values of the recent half over that of the older half, the recent
\* half taking the extra element of an odd n.  With sums sr, so and counts
\* nr, no of the positive values: result * so * nr = sr * no.
C12_TrendRatio ==
    (result.op = "calculate_trend_ratio")
    => LET values == result.args.values
           n      == Len(values)
           older  == SelectSeq(SubSeq(values, 1, n \div 2), IsPositive)
           recent == SelectSeq(SubSeq(values, (n \div 2) + 1, n), IsPositive)
           v      == result.value
       IN /\ result.status = "ok"
          /\ n < 3 => (v.k = "fin" /\ v.num = 1 /\ v.den = 1)
          /\ (n >= 3 /\ older # <<>> /\ recent # <<>>)
               => /\ v.k = "fin" /\ v.den > 0
                  /\ v.num * SeqSum(older) * Len(recent)
                       = v.den * SeqSum(recent) * Len(older)

\* C12 witness: the trend ratio of [1, 1, 1, 3, 3] has been computed: older
\* half [1, 1], recent half [1, 3, 3], result (7/3) / 1.
C12_Witness ==
    /\ result.op = "calculate_trend_ratio"
    /\ result.args.values = <<1, 1, 1, 3, 3>>
    /\ result.value = Fin(7, 3)

C14_ReportOfWrittenLedger ==
    (result.op = "write_output_file" /\ result.status = "ok")
    => \E num_months \in MMonths :
          generate_stat_data(Some(result.value[1].SRT), AStart, num_months)
            = Ok(result.value[1].STAT)

\* C15 (as stated): in every generated report and for every requested month,
\* the cell of row 'Count of Cash Trn' (cash_count) is at most the cell of row
\* 'Count of Transactions' (bt_count), also for a ledger without a C1 column.
C15_CashAtMostAll ==
    (result.op = "generate_stat_data" /\ result.status = "ok")
    => \A j \in 1..result.args.num_months : GridCell(22, j).n <= GridCell(23, j).n

\* Calendar months counted from year 0.
MonthIndex(date) == date.year * 12 + date.month - 1

\* C16: for every start date and num_months N >= 1 the N anchors (the dates of
\* the report's header) lie in N consecutive calendar months, the previous
\* month end of each anchor is before its month end and lies in the month
\* before it, the previous month end of anchor i + 1 is the month end of
\* anchor i, and the windows (previous month end, month end] of two different
\* anchors do not overlap.
C16_Windows ==
    /\ (result.op = "get_month_end_date")
          => MonthIndex(result.value) = MonthIndex(result.args.date)
    /\ (result.op = "get_previous_month_end_date")
          => /\ DateLT(result.value, get_month_end_date(result.args.date))
             /\ MonthIndex(result.value) = MonthIndex(result.args.date) - 1
    /\ (result.op = "generate_stat_data" /\ result.status = "ok"
          /\ result.args.num_months >= 1)
          => LET n == result.args.num_months
                 a == DateColumns(result.args.start_date, n)
                 month_end(i) == get_month_end_date(a[i])
                 prev_month_end(i) == get_previous_month_end_date(a[i])
             IN /\ Len(a) = n
                /\ \A i \in 1..n :
                      /\ stat_data[1][1][i + 1] = T(StrfDate(a[i]))
                      /\ MonthIndex(a[i]) = MonthIndex(result.args.start_date) + i - 1
                      /\ DateLT(prev_month_end(i), month_end(i))
                      /\ DateLE(a[i], month_end(i)) /\ DateLT(prev_month_end(i), a[i])
                      /\ i < n => prev_month_end(i + 1) = month_end(i)
                /\ \A i, j \in 1..n :
                      i < j => DateLE(month_end(i), prev_month_end(j))

\* C16 witness: a report of at least three months starting on 2024-01-31 has
\* been generated; its second and third anchors are 2024-02-29 and 2024-03-31.
C16_Witness ==
    /\ result.op = "generate_stat_data" /\ result.status = "ok"
    /\ result.args.start_date = Date(2024, 1, 31)
    /\ result.args.num_months >= 3
    /\ stat_data[1][1][3] = T(<<"2", "0", "2", "4", "-", "0", "2", "-", "2", "9">>)
    /\ stat_data[1][1][4] = T(<<"2", "0", "2", "4", "-", "0", "3", "-", "3", "1">>)

====
